---- MODULE Spec2Model ----
(***************************************************************************)
(* A model of inferas: the web scraper and HTML injector of                *)
(* src/src/inferas/web.py and the process / binary inspector (class re)    *)
(* whose code is carried by src/test/core_test.py.                         *)
(*                                                                         *)
(* The components share no state.  Each has its own specification          *)
(* (SpecWeb, SpecStrings, SpecSha, SpecInject, SpecPid, SpecSource) over   *)
(* its own variables; the variables of the other components stay at their  *)
(* idle value.                                                             *)
(***************************************************************************)
EXTENDS Integers, Sequences, FiniteSets, TLC

VARIABLES
    scr,        \* the scraper instance: max_retries, last_html, last_url, _soup
    call,       \* the getweb call in flight: pc, link, attempt, last_exc
    trace,      \* what the current / last operation did on the outside: sleeps and network attempts
    result,     \* how the last operation on the scraper ended
    ok,         \* history: body and link of the most recent getweb that returned
    pre,        \* history: the instance as it was when the last operation started
    scan,       \* one run of re._extract_strings
    sha,        \* the file and the chunk sizes re._compute_sha256 is run with
    inj,        \* one run of injection.element, then injection.css
    gp,         \* one run of re.get_pid
    gs          \* one path-based operation of re on one file-system state

webVars == <<scr, call, trace, result, ok, pre>>
vars == <<scr, call, trace, result, ok, pre, scan, sha, inj, gp, gs>>

Idle == [pc |-> "unused"]

None == "None"

\* ------------------------------------------------------------------ bounds

MaxRetries == 3
MaxLen == 5         \* longest byte buffer scanned
MaxMinLen == 2      \* largest min_len
MaxResults == 2     \* largest max_results
MaxFileLen == 3     \* longest file hashed
MaxChunk == 3       \* largest chunk_size

\* ------------------------------------------------------------- sequences

Last(s) == s[Len(s)]

RECURSIVE Pow2(_)
Pow2(n) == IF n <= 0 THEN 1 ELSE 2 * Pow2(n - 1)

RECURSIVE SelectIdx(_, _, _)
\* the elements of s at the positions of keep, in order
SelectIdx(s, keep, i) ==
    IF i > Len(s) THEN <<>>
    ELSE (IF i \in keep THEN <<s[i]>> ELSE <<>>) \o SelectIdx(s, keep, i + 1)

\* ======================================================================
\* web.py: class scraper
\* ======================================================================

\* --- HTML and the parsed document --------------------------------------
\* A body is named by a string; Markup gives what it holds: a sequence of
\* tokens, each an element or a marked section "<![kw ...]>" whose keyword
\* html.parser does not know.

El(tag, id, cls, text, attrs) ==
    [kind |-> "el", tag |-> tag, id |-> id, cls |-> cls, text |-> text, attrs |-> attrs]

BadMarked ==
    [kind |-> "marked", tag |-> "", id |-> "", cls |-> "", text |-> "", attrs |-> {}]

Markup(html) ==
    CASE html = "pageA" ->
            << El("p", "intro", "lead", "hello", {}),
               El("script", "boot", "", "init()", {}),
               El("button", "go", "lead", "Go", {<<"onclick", "go()">>}) >>
      [] html = "pageB" ->
            << El("a", "home", "nav", "Home", {<<"href", "/">>}),
               El("style", "css", "", "p{}", {}),
               El("noscript", "ns", "nav", " ", {<<"role", "button">>}),
               El("input", "q", "", "", {<<"type", "search">>}) >>
      [] html = "pageBad" ->
            << El("p", "intro", "lead", "hello", {}), BadMarked >>
      [] OTHER -> <<>>

Bodies == {"pageA", "pageB", "pageBad", ""}
Links == {"http://a", "http://b"}
Selectors == {"p", "script", "a"}
Classes == {"lead", "nav"}
Ids == {"intro", "boot", "ns"}

\* BeautifulSoup(html, "html.parser"): html.parser raises on a marked section
\* with an unknown keyword and bs4 turns that into ParserRejectedMarkup.
ParseRejects(html) == \E i \in 1..Len(Markup(html)) : Markup(html)[i].kind = "marked"

NoSoup == [isNone |-> TRUE, src |-> None, nodes |-> <<>>]

Parse(html) == [isNone |-> FALSE, src |-> html, nodes |-> Markup(html)]

\* Python truth of an Optional[str]
Truthy(html) == html # None /\ html # ""

\* --- queries on a document ---------------------------------------------

Serialize(e) == [outer |-> e]

Strip(text) == IF text = " " THEN "" ELSE text

HasAttr(e, name) == \E a \in e.attrs : a[1] = name

AttrOr(e, name, default) ==
    IF HasAttr(e, name) THEN (CHOOSE a \in e.attrs : a[1] = name)[2] ELSE default

IsNoise(e) == e.tag \in {"script", "style", "noscript"}

\* for s in self._soup(["script", "style", "noscript"]): s.decompose()
Decompose(nodes) == SelectIdx(nodes, {k \in 1..Len(nodes) : ~IsNoise(nodes[k])}, 1)

StrippedStrings(nodes) ==
    LET kept == SelectIdx(nodes, {k \in 1..Len(nodes) : Strip(nodes[k].text) # ""}, 1)
    IN  [i \in 1..Len(kept) |-> Strip(kept[i].text)]

TextOf(nodes, collapse) ==
    [sep |-> IF collapse THEN " " ELSE "\n", parts |-> StrippedStrings(nodes)]

Push(e, typ) == [type |-> typ, text |-> Strip(e.text), attrs |-> e.attrs]

PushAll(els, typ) == [i \in 1..Len(els) |-> Push(els[i], typ)]

Interactions(nodes) ==
    LET inputs == SelectIdx(nodes, {k \in 1..Len(nodes) : nodes[k].tag = "input"}, 1)
    IN  PushAll(SelectIdx(nodes, {k \in 1..Len(nodes) : nodes[k].tag = "button"}, 1), <<"button">>)
        \o [i \in 1..Len(inputs) |-> Push(inputs[i], <<"input", AttrOr(inputs[i], "type", "text")>>)]
        \o PushAll(SelectIdx(nodes, {k \in 1..Len(nodes) : nodes[k].tag = "select"}, 1), <<"select">>)
        \o PushAll(SelectIdx(nodes, {k \in 1..Len(nodes) : nodes[k].tag = "textarea"}, 1), <<"textarea">>)
        \o PushAll(SelectIdx(nodes, {k \in 1..Len(nodes) : nodes[k].tag = "a" /\ HasAttr(nodes[k], "href")}, 1), <<"link">>)
        \o PushAll(SelectIdx(nodes, {k \in 1..Len(nodes) : nodes[k].tag = "form"}, 1), <<"form">>)
        \o PushAll(SelectIdx(nodes, {k \in 1..Len(nodes) : HasAttr(nodes[k], "onclick")}, 1), <<"onclick">>)
        \o PushAll(SelectIdx(nodes, {k \in 1..Len(nodes) : AttrOr(nodes[k], "role", "") = "button"}, 1), <<"role=button">>)

SerializeAll(els) == [i \in 1..Len(els) |-> Serialize(els[i])]

Select(nodes, sel) == SerializeAll(SelectIdx(nodes, {k \in 1..Len(nodes) : nodes[k].tag = sel}, 1))

ByClass(nodes, c) == SerializeAll(SelectIdx(nodes, {k \in 1..Len(nodes) : nodes[k].cls = c}, 1))

ById(nodes, id) ==
    LET hits == SelectIdx(nodes, {k \in 1..Len(nodes) : nodes[k].id = id}, 1)
    IN  IF hits = <<>> THEN <<>> ELSE <<Serialize(hits[1])>>

QueryOps == {"get_element", "get_by_class", "get_by_id", "extractalltext", "extractallinteractions"}

\* what a query answers on a document, and the document it leaves behind
QueryValue(op, arg, nodes) ==
    CASE op = "get_element" -> Select(nodes, arg)
      [] op = "get_by_class" -> ByClass(nodes, arg)
      [] op = "get_by_id" -> ById(nodes, arg)
      [] op = "extractalltext" -> TextOf(Decompose(nodes), arg = "collapse")
      [] OTHER -> Interactions(nodes)

QueryLeaves(op, nodes) ==
    IF op = "extractalltext" THEN Decompose(nodes) ELSE nodes

\* --- exceptions ----------------------------------------------------------
\* An exception is an object: two raised by different attempts differ.

Exc(type, attempt) == [type |-> type, attempt |-> attempt]

NoExc == Exc(None, 0 - 1)

NetErrors == {"ConnectionError", "HTTPError"}

\* --- results ---------------------------------------------------------------

Returned(op, arg, val) == [op |-> op, arg |-> arg, kind |-> "return", val |-> val, err |-> NoExc]

Raised(op, arg, e) == [op |-> op, arg |-> arg, kind |-> "raise", val |-> <<>>, err |-> e]

Running(op, arg) == [op |-> op, arg |-> arg, kind |-> "running", val |-> <<>>, err |-> NoExc]

\* something the outside sees an operation do: the politeness sleep, a network
\* attempt n with its outcome and the body served, a backoff sleep of n seconds
Event(t, n, out, body) == [t |-> t, n |-> n, out |-> out, body |-> body]

NoCall == [pc |-> "idle", link |-> None, attempt |-> 0, last_exc |-> NoExc]

\* --- scraper.__init__ ----------------------------------------------------

NewScraper(max_retries) ==
    [max_retries |-> max_retries, last_html |-> None, last_url |-> None, soup |-> NoSoup]

InitScraper ==
    /\ scr \in {NewScraper(m) : m \in 0..MaxRetries}
    /\ call = NoCall
    /\ trace = <<>>
    /\ result = Running("init", "")
    /\ ok = [html |-> None, url |-> None]
    /\ pre = scr

\* --- scraper.getweb --------------------------------------------------------

BackoffMutant(attempt) == 2 * attempt
Backoff(attempt) == Pow2(attempt)

IsFinalAttemptMutant(attempt, max_retries) == attempt = max_retries
IsFinalAttempt(attempt, max_retries) == attempt = max_retries - 1

\* lines 32-36: the politeness sleep, then the loop is entered
GetwebStart(link, respect_delay) ==
    /\ call.pc = "idle"
    /\ call' = [pc |-> "loop", link |-> link, attempt |-> 0, last_exc |-> NoExc]
    /\ trace' = IF respect_delay THEN <<Event("polite", 0, "", None)>> ELSE <<>>
    /\ result' = Running("getweb", link)
    /\ pre' = scr
    /\ UNCHANGED <<scr, ok>>

\* lines 46-52: the except clause
Except(e, body, scrNow) ==
    /\ scr' = scrNow
    /\ trace' = Append(trace, Event("attempt", call.attempt, e.type, body))
    /\ IF IsFinalAttempt(call.attempt, scr.max_retries)
       THEN /\ call' = [NoCall EXCEPT !.last_exc = e]
            /\ result' = Raised("getweb", call.link, e)
       ELSE /\ call' = [call EXCEPT !.pc = "sleep", !.last_exc = e]
            /\ UNCHANGED result
    /\ UNCHANGED <<ok, pre>>

\* lines 39-40: requests.get or raise_for_status raises
AttemptNetworkFails(type) ==
    /\ call.pc = "loop"
    /\ call.attempt < scr.max_retries
    /\ Except(Exc(type, call.attempt), None, scr)

\* lines 39-44 with a body the parser rejects: last_html and last_url are
\* assigned before BeautifulSoup raises
AttemptParseFails(html) ==
    /\ call.pc = "loop"
    /\ call.attempt < scr.max_retries
    /\ ParseRejects(html)
    /\ Except(Exc("ParserRejectedMarkup", call.attempt), html,
              [scr EXCEPT !.last_html = html, !.last_url = call.link])

\* lines 39-45
AttemptSucceeds(html) ==
    /\ call.pc = "loop"
    /\ call.attempt < scr.max_retries
    /\ ~ParseRejects(html)
    /\ scr' = [scr EXCEPT !.last_html = html, !.last_url = call.link, !.soup = Parse(html)]
    /\ trace' = Append(trace, Event("attempt", call.attempt, "ok", html))
    /\ call' = NoCall
    /\ result' = Returned("getweb", call.link, html)
    /\ ok' = [html |-> html, url |-> call.link]
    /\ UNCHANGED pre

\* line 53, then the next iteration
BackoffSleep ==
    /\ call.pc = "sleep"
    /\ trace' = Append(trace, Event("sleep", Backoff(call.attempt), "", None))
    /\ call' = [call EXCEPT !.pc = "loop", !.attempt = @ + 1]
    /\ UNCHANGED <<scr, result, ok, pre>>

\* line 54: the loop ran out; "raise None" is a TypeError
LoopExhausted ==
    /\ call.pc = "loop"
    /\ call.attempt >= scr.max_retries
    /\ result' = Raised("getweb", call.link,
                        IF call.last_exc = NoExc THEN Exc("TypeError", call.attempt)
                        ELSE call.last_exc)
    /\ call' = [NoCall EXCEPT !.last_exc = call.last_exc]
    /\ UNCHANGED <<scr, trace, ok, pre>>

\* --- scraper._ensure_soup and the queries ------------------------------------

\* the instance after _ensure_soup, or an exception
EnsureSoup(s) ==
    IF ~s.soup.isNone THEN [raised |-> FALSE, err |-> NoExc, scr |-> s]
    ELSE IF Truthy(s.last_html)
         THEN IF ParseRejects(s.last_html)
              THEN [raised |-> TRUE, err |-> Exc("ParserRejectedMarkup", 0), scr |-> s]
              ELSE [raised |-> FALSE, err |-> NoExc,
                    scr |-> [s EXCEPT !.soup = Parse(s.last_html)]]
         ELSE [raised |-> TRUE, err |-> Exc("RuntimeError: No HTML loaded", 0), scr |-> s]

Query(op, arg) ==
    /\ call.pc = "idle"
    /\ pre' = scr
    /\ trace' = <<>>
    /\ LET es == EnsureSoup(scr)
       IN  IF es.raised
           THEN /\ result' = Raised(op, arg, es.err)
                /\ scr' = es.scr
           ELSE /\ result' = Returned(op, arg, QueryValue(op, arg, es.scr.soup.nodes))
                /\ scr' = [es.scr EXCEPT !.soup.nodes = QueryLeaves(op, @)]
    /\ UNCHANGED <<call, ok>>

GetElement == \E sel \in Selectors : Query("get_element", sel)
GetByClass == \E c \in Classes : Query("get_by_class", c)
GetById == \E id \in Ids : Query("get_by_id", id)
ExtractAllText == \E c \in {"collapse", "lines"} : Query("extractalltext", c)
ExtractAllInteractions == Query("extractallinteractions", "")

Getweb == \E link \in Links, respect_delay \in BOOLEAN : GetwebStart(link, respect_delay)
NetworkFails == \E type \in NetErrors : AttemptNetworkFails(type)
ParseFails == \E html \in Bodies : AttemptParseFails(html)
Succeeds == \E html \in Bodies : AttemptSucceeds(html)

NextWeb ==
    \/ Getweb /\ UNCHANGED <<scan, sha, inj, gp, gs>>
    \/ NetworkFails /\ UNCHANGED <<scan, sha, inj, gp, gs>>
    \/ ParseFails /\ UNCHANGED <<scan, sha, inj, gp, gs>>
    \/ Succeeds /\ UNCHANGED <<scan, sha, inj, gp, gs>>
    \/ BackoffSleep /\ UNCHANGED <<scan, sha, inj, gp, gs>>
    \/ LoopExhausted /\ UNCHANGED <<scan, sha, inj, gp, gs>>
    \/ GetElement /\ UNCHANGED <<scan, sha, inj, gp, gs>>
    \/ GetByClass /\ UNCHANGED <<scan, sha, inj, gp, gs>>
    \/ GetById /\ UNCHANGED <<scan, sha, inj, gp, gs>>
    \/ ExtractAllText /\ UNCHANGED <<scan, sha, inj, gp, gs>>
    \/ ExtractAllInteractions /\ UNCHANGED <<scan, sha, inj, gp, gs>>

InitWeb == InitScraper /\ scan = Idle /\ sha = Idle /\ inj = Idle /\ gp = Idle /\ gs = Idle

SpecWeb == InitWeb /\ [][NextWeb]_vars

\* ----------------------------------------------------------------------
\* Claims about the scraper
\* ----------------------------------------------------------------------

Attempts == SelectIdx(trace, {k \in 1..Len(trace) : trace[k].t = "attempt"}, 1)
Sleeps == SelectIdx(trace, {k \in 1..Len(trace) : trace[k].t = "sleep"}, 1)
\* the trace of the call after the politeness sleep
Steps == SelectIdx(trace, {k \in 1..Len(trace) : trace[k].t # "polite"}, 1)

\* attempts and backoff sleeps alternate, starting with an attempt, and the
\* politeness sleep can only come first
Alternates ==
    /\ \A j \in 1..Len(Steps) : Steps[j].t = IF j % 2 = 1 THEN "attempt" ELSE "sleep"
    /\ \A j \in 2..Len(trace) : trace[j].t # "polite"

\* C1: a getweb call with max_retries >= 1 that returns after attempts 0..k-1
\* raised and attempt k succeeded (k < max_retries) made exactly k+1 attempts,
\* slept exactly 2^i seconds between attempt i and attempt i+1 (1, then each
\* wait twice the one before), did nothing after the successful attempt, and
\* returned the body of that attempt.
C1_BackoffThenSuccess ==
    (result.op = "getweb" /\ result.kind = "return" /\ scr.max_retries >= 1) =>
        LET k == Len(Attempts) - 1
        IN  /\ k >= 0 /\ k < scr.max_retries
            /\ \A i \in 1..(k + 1) : Attempts[i].n = i - 1
            /\ \A i \in 1..k : Attempts[i].out # "ok"
            /\ Attempts[k + 1].out = "ok"
            /\ Len(Sleeps) = k
            /\ k >= 1 => Sleeps[1].n = 1
            /\ \A i \in 2..k : Sleeps[i].n = 2 * Sleeps[i - 1].n /\ Sleeps[i].n > Sleeps[i - 1].n
            /\ Alternates
            /\ Last(trace) = Attempts[k + 1]
            /\ call.pc = "idle"
            /\ result.val = Attempts[k + 1].body

C1_Witness ==
    /\ result.op = "getweb" /\ result.kind = "return"
    /\ Len(Attempts) = 3 /\ Len(Sleeps) = 2 /\ Sleeps[2].n = 2

\* C2: when all max_retries (>= 1) attempts of a getweb call raise, exactly
\* max_retries attempts are made, the call raises the error object of the final
\* attempt, and nothing (no sleep, no attempt) follows the final failure.
C2_ExhaustionRaisesLast ==
    LET failed == SelectIdx(Attempts, {k \in 1..Len(Attempts) : Attempts[k].out # "ok"}, 1)
    IN  /\ (scr.max_retries >= 1 /\ result.op = "getweb" /\ Len(failed) = scr.max_retries) =>
            /\ result.kind = "raise"
            /\ Len(Attempts) = scr.max_retries
            /\ result.err = Exc(Last(Attempts).out, scr.max_retries - 1)
            /\ Last(Attempts).n = scr.max_retries - 1
            /\ Last(trace) = Last(Attempts)
            /\ Len(Sleeps) = scr.max_retries - 1
            /\ Alternates
            /\ call.pc = "idle"
        /\ (scr.max_retries >= 1 /\ result.op = "getweb" /\ result.kind = "raise") =>
            Len(failed) = scr.max_retries

C2_Witness ==
    /\ result.op = "getweb" /\ result.kind = "raise" /\ scr.max_retries = 3
    /\ Len(Attempts) = 3
    /\ Attempts[1].out = "HTTPError" /\ Attempts[3].out = "ConnectionError"

\* C6: a query on an instance on which no getweb has succeeded (also after
\* getweb calls that failed) raises the not-loaded error, makes no network
\* attempt and leaves the instance as it was; once a getweb has succeeded no
\* query raises the not-loaded error.
C6_QueryBeforeLoadRaisesNotLoaded ==
    result.op \in QueryOps =>
        /\ ok.html = None =>
            /\ result.kind = "raise"
            /\ result.err.type = "RuntimeError: No HTML loaded"
            /\ trace = <<>>
            /\ scr = pre
        /\ ok.html # None =>
            ~(result.kind = "raise" /\ result.err.type = "RuntimeError: No HTML loaded")

\* C9: after a successful getweb every query returns what it would return as
\* the first query issued right after that getweb.
C9_QueriesAreReadOnly ==
    (result.op \in QueryOps /\ result.kind = "return" /\ ok.html # None) =>
        result.val = QueryValue(result.op, result.arg, Parse(ok.html).nodes)

\* C10: last_html, last_url and the parsed document are always those of the
\* most recent getweb call that succeeded (unset before the first), whatever
\* failed attempts and failed calls came in between, and last_html and
\* last_url are unset together.
C10_StateIsLastSuccess ==
    /\ scr.last_html = ok.html
    /\ scr.last_url = ok.url
    /\ scr.soup.src = ok.html
    /\ (scr.last_html = None) <=> (scr.last_url = None)

\* ======================================================================
\* re._extract_strings (core_test.py:127-155)
\* ======================================================================

\* the bytes either side of both ends of the printable range
ByteVals == {31, 32, 126, 127}

RECURSIVE SeqsUpTo(_, _)
\* the sequences over S of length at most n
SeqsUpTo(S, n) ==
    IF n = 0 THEN {<<>>}
    ELSE LET shorter == SeqsUpTo(S, n - 1)
         IN  shorter \cup {Append(q, x) : q \in {r \in shorter : Len(r) = n - 1}, x \in S}

\* c = chr(b)
Chr(b) == [ch |-> b]

\* " " <= c <= "~"
IsPrintableMutant(c) == 32 < c.ch /\ c.ch <= 126
IsPrintable(c) == 32 <= c.ch /\ c.ch <= 126

\* if len(results) >= max_results: break
CapReached(results, max_results) == Len(results) >= max_results

\* one iteration of "for b in data" on the locals [printable, results]; brk
\* tells that the iteration left the loop by break

ScanStep(st, b, min_len, max_results) ==
    LET c == Chr(b)
    IN  IF IsPrintable(c)
        THEN [printable |-> Append(st.printable, c), results |-> st.results, brk |-> FALSE]
        ELSE IF Len(st.printable) >= min_len
             THEN LET results == Append(st.results, st.printable)
                  IN  IF CapReached(results, max_results)
                      THEN [printable |-> st.printable, results |-> results, brk |-> TRUE]
                      ELSE [printable |-> <<>>, results |-> results, brk |-> FALSE]
             ELSE [printable |-> <<>>, results |-> st.results, brk |-> FALSE]

\* the final tail, lines 152-155
ScanTail(st, min_len, max_results) ==
    IF Len(st.results) < max_results /\ Len(st.printable) >= min_len
    THEN Append(st.results, st.printable)
    ELSE st.results

InitScan ==
    scan \in { [pc |-> IF data = <<>> THEN "tail" ELSE "scan",
                data |-> data, min_len |-> m, max_results |-> r,
                i |-> 1, printable |-> <<>>, results |-> <<>>] :
               data \in SeqsUpTo(ByteVals, MaxLen), m \in 1..MaxMinLen, r \in 1..MaxResults }

\* lines 141-151, one byte
ScanByte ==
    /\ scan.pc = "scan"
    /\ LET st == ScanStep(scan, scan.data[scan.i], scan.min_len, scan.max_results)
       IN  scan' = [scan EXCEPT !.printable = st.printable,
                                !.results = st.results,
                                !.i = @ + 1,
                                !.pc = IF st.brk \/ scan.i = Len(scan.data) THEN "tail" ELSE "scan"]
    /\ UNCHANGED <<webVars, sha, inj, gp, gs>>

\* lines 152-155
ScanFinish ==
    /\ scan.pc = "tail"
    /\ scan' = [scan EXCEPT !.results = ScanTail(scan, scan.min_len, scan.max_results),
                            !.pc = "done"]
    /\ UNCHANGED <<webVars, sha, inj, gp, gs>>

NextStrings == ScanByte \/ ScanFinish

\* the other components at rest
WebIdle ==
    /\ scr = Idle /\ call = Idle /\ trace = Idle
    /\ result = Idle /\ ok = Idle /\ pre = Idle

InitStrings == InitScan /\ WebIdle /\ sha = Idle /\ inj = Idle /\ gp = Idle /\ gs = Idle

SpecStrings == InitStrings /\ [][NextStrings]_vars

\* --- the claim ---------------------------------------------------------------

\* [a, b] is a maximal run of printable bytes of data
MaximalRun(data, a, b) ==
    /\ 1 <= a /\ a <= b /\ b <= Len(data)
    /\ \A j \in a..b : data[j] >= 32 /\ data[j] <= 126
    /\ a = 1 \/ data[a - 1] < 32 \/ data[a - 1] > 126
    /\ b = Len(data) \/ data[b + 1] < 32 \/ data[b + 1] > 126

RECURSIVE QualifyingRuns(_, _, _)
\* the maximal runs of length >= min_len that start at a or later, left to right
QualifyingRuns(data, min_len, a) ==
    IF a > Len(data) THEN <<>>
    ELSE LET ends == {b \in a..Len(data) : MaximalRun(data, a, b) /\ b - a + 1 >= min_len}
         IN  (IF ends = {} THEN <<>>
              ELSE LET b == CHOOSE e \in ends : TRUE
                   IN  << [j \in 1..(b - a + 1) |-> Chr(data[a + j - 1])] >>)
             \o QualifyingRuns(data, min_len, a + 1)

FirstN(s, n) == IF Len(s) <= n THEN s ELSE SubSeq(s, 1, n)

\* C3: _extract_strings returns the first max_results (all, if fewer) of the
\* left-to-right maximal runs of bytes in [0x20, 0x7E] of length >= min_len,
\* a run that ends the buffer included.
C3_FirstMaximalRuns ==
    scan.pc = "done" =>
        /\ scan.results = FirstN(QualifyingRuns(scan.data, scan.min_len, 1), scan.max_results)
        /\ Len(QualifyingRuns(scan.data, scan.min_len, 1)) > scan.max_results =>
               Len(scan.results) = scan.max_results

\* three qualifying runs, the last one ending the buffer, and a cap of two
C3_Witness ==
    /\ scan.pc = "done"
    /\ scan.data = <<32, 31, 126, 127, 32>>
    /\ scan.min_len = 1 /\ scan.max_results = 2
    /\ Len(scan.results) = 2

\* ======================================================================
\* re._compute_sha256 (core_test.py:116-124)
\* ======================================================================

FileBytes == {0, 1}

\* chunk_size is an int the code does not validate
ChunkSizes == {0 - 2, 0 - 1} \cup 0..MaxChunk

\* fh.read(n) at offset pos: n bytes at most, everything left for n = -1,
\* ValueError for n < -1
ReadRaises(n) == n < 0 - 1

ReadChunk(content, pos, n) ==
    LET left == Len(content) - pos
        take == IF n < 0 THEN left ELSE IF n < left THEN n ELSE left
    IN  SubSeq(content, pos + 1, pos + take)

\* if not b: break
StopsReadingMutant(b, n) == Len(b) < n
StopsReading(b, n) == b = <<>>

\* h = hashlib.sha256(); h.update(b): the state of a running hash is decided
\* by the bytes fed so far, and distinct inputs give distinct digests
NewHash == <<>>
HashUpdate(h, b) == h \o b
HexDigest(h) == [sha256 |-> h]

InitSha ==
    sha \in { [pc |-> "idle", content |-> content, chunk |-> 0, pos |-> 0,
               h |-> NewHash, outcomes |-> {}] :
              content \in SeqsUpTo(FileBytes, MaxFileLen) }

Outcome(chunk, kind, digest) == [chunk |-> chunk, kind |-> kind, digest |-> digest]

\* lines 117-118: a call with a chunk size not tried yet on this file
ShaCall ==
    /\ sha.pc = "idle"
    /\ \E c \in ChunkSizes :
          /\ \A o \in sha.outcomes : o.chunk # c
          /\ sha' = [sha EXCEPT !.pc = "read", !.chunk = c, !.pos = 0, !.h = NewHash]
    /\ UNCHANGED <<webVars, scan, inj, gp, gs>>

\* lines 119-124: one turn of the read loop
ShaRead ==
    /\ sha.pc = "read"
    /\ IF ReadRaises(sha.chunk)
       THEN sha' = [sha EXCEPT !.pc = "idle",
                               !.outcomes = @ \cup {Outcome(sha.chunk, "raise", HexDigest(<<>>))}]
       ELSE LET b == ReadChunk(sha.content, sha.pos, sha.chunk)
            IN  IF StopsReading(b, sha.chunk)
                THEN sha' = [sha EXCEPT !.pc = "idle",
                                        !.outcomes = @ \cup {Outcome(sha.chunk, "return", HexDigest(sha.h))}]
                ELSE sha' = [sha EXCEPT !.h = HashUpdate(@, b), !.pos = @ + Len(b)]
    /\ UNCHANGED <<webVars, scan, inj, gp, gs>>

NextSha == ShaCall \/ ShaRead

InitShaAll == InitSha /\ WebIdle /\ scan = Idle /\ inj = Idle /\ gp = Idle /\ gs = Idle

SpecSha == InitShaAll /\ [][NextSha]_vars

\* --- the claim ---------------------------------------------------------------

Digests == {o \in sha.outcomes : o.kind = "return"}

\* C4 as stated: whatever the file holds, any two chunk sizes give the same
\* digest, the bytes fed to the hash being the whole file.
C4_AnyChunkSizeSameDigest ==
    \A o1 \in Digests, o2 \in Digests :
        o1.digest = o2.digest /\ o1.digest = HexDigest(sha.content)

\* C4 amended: any two chunk sizes that are >= 1 or -1 give the same digest,
\* that of the whole file; chunk size 0 gives the digest of the empty input
\* whatever the file holds; a chunk size below -1 makes the read raise.
C4_PositiveChunkSizeSameDigest ==
    \A o1 \in sha.outcomes, o2 \in sha.outcomes :
        /\ (o1.chunk >= 1 \/ o1.chunk = 0 - 1) =>
               o1.kind = "return" /\ o1.digest = HexDigest(sha.content)
        /\ ((o1.chunk >= 1 \/ o1.chunk = 0 - 1) /\ (o2.chunk >= 1 \/ o2.chunk = 0 - 1)) =>
               o1.digest = o2.digest
        /\ o1.chunk = 0 => o1.kind = "return" /\ o1.digest = HexDigest(<<>>)
        /\ o1.chunk < 0 - 1 => o1.kind = "raise"

\* a file of three bytes hashed with chunks of one byte, of two bytes (a short
\* last chunk) and in one read
C4_Witness ==
    /\ Len(sha.content) = 3
    /\ sha.pc = "idle"
    /\ \E o1 \in Digests, o2 \in Digests, o3 \in Digests :
          o1.chunk = 1 /\ o2.chunk = 2 /\ o3.chunk = 0 - 1

\* ======================================================================
\* re.get_pid (core_test.py:39-113)
\* ======================================================================

\* the lookups of get_pid, in the order of the code
Fields ==
    << "name", "cmdline", "exe", "cwd", "username", "created", "status",
       "cpu_times", "memory_info", "open_files", "connections_count" >>

\* a Python value: what psutil gave for a field, in the shape get_pid stores it
PyNone == [of |-> "", shape |-> "None"]

Shape(field) ==
    CASE field = "cpu_times" -> "_asdict()"
      [] field = "memory_info" -> "{rss, vms}"
      [] field = "open_files" -> "[f.path]"
      [] field = "connections_count" -> "len()"
      [] OTHER -> "as returned"

Looked(field) == [of |-> field, shape |-> Shape(field)]

\* try: out[field] = ...
OnLookupValue(out, field) == out @@ (field :> Looked(field))

\* except Exception: out[field] = None
OnLookupErrorMutant(out, field) == out
OnLookupError(out, field) == out @@ (field :> PyNone)

InitGetPid ==
    gp \in { [pc |-> "call", psutil |-> ps, exists |-> ex, at |-> 1,
              out |-> <<>>, failed |-> {}, tried |-> <<>>, raised |-> None] :
             ps \in BOOLEAN, ex \in BOOLEAN }

\* lines 56-60 with _safe_psutil_proc, lines 40-46
GetPidOpen ==
    /\ gp.pc = "call"
    /\ gp' = IF ~gp.psutil THEN [gp EXCEPT !.pc = "raised", !.raised = "RuntimeError"]
             ELSE IF ~gp.exists THEN [gp EXCEPT !.pc = "raised", !.raised = "ValueError"]
             ELSE [gp EXCEPT !.pc = "lookups", !.out = ("pid" :> [of |-> "pid", shape |-> "as given"])]
    /\ UNCHANGED <<webVars, scan, sha, inj, gs>>

\* one try block of lines 61-111 whose lookup returns
LookupReturns ==
    /\ gp.pc = "lookups"
    /\ gp.at <= Len(Fields)
    /\ gp' = [gp EXCEPT !.out = OnLookupValue(@, Fields[gp.at]),
                        !.tried = Append(@, Fields[gp.at]),
                        !.at = @ + 1]
    /\ UNCHANGED <<webVars, scan, sha, inj, gs>>

\* one try block of lines 61-111 whose lookup raises
LookupRaises ==
    /\ gp.pc = "lookups"
    /\ gp.at <= Len(Fields)
    /\ gp' = [gp EXCEPT !.out = OnLookupError(@, Fields[gp.at]),
                        !.failed = @ \cup {Fields[gp.at]},
                        !.tried = Append(@, Fields[gp.at]),
                        !.at = @ + 1]
    /\ UNCHANGED <<webVars, scan, sha, inj, gs>>

\* line 113
GetPidReturn ==
    /\ gp.pc = "lookups"
    /\ gp.at > Len(Fields)
    /\ gp' = [gp EXCEPT !.pc = "done"]
    /\ UNCHANGED <<webVars, scan, sha, inj, gs>>

NextPid == GetPidOpen \/ LookupReturns \/ LookupRaises \/ GetPidReturn

InitPid == InitGetPid /\ WebIdle /\ scan = Idle /\ sha = Idle /\ inj = Idle /\ gs = Idle

SpecPid == InitPid /\ [][NextPid]_vars

\* --- the claim ---------------------------------------------------------------

\* C8: for an existing process get_pid never raises; whatever subset of the
\* lookups fails, every lookup is attempted, in order, and the record returned
\* holds None in exactly the failed fields and the looked-up value in the others.
C8_FailedFieldsAreNone ==
    /\ (gp.psutil /\ gp.exists) => gp.pc # "raised"
    /\ gp.pc = "lookups" => gp.tried = SubSeq(Fields, 1, gp.at - 1)
    /\ gp.pc = "done" =>
          /\ gp.tried = Fields
          /\ DOMAIN gp.out = {"pid"} \cup {Fields[i] : i \in 1..Len(Fields)}
          /\ \A i \in 1..Len(Fields) :
                gp.out[Fields[i]] = IF Fields[i] \in gp.failed THEN PyNone ELSE Looked(Fields[i])

\* open_files could not be read, a later lookup could, an earlier one failed too
C8_Witness ==
    /\ gp.pc = "done"
    /\ gp.failed = {"exe", "open_files"}
    /\ gp.out["open_files"] = PyNone
    /\ gp.out["connections_count"] = Looked("connections_count")

\* ======================================================================
\* re.get_source and the path-based helpers (core_test.py:116-236)
\* ======================================================================

DefaultChunkSize == 8192

\* --- the helpers as whole calls on a file ------------------------------------
\* A file is [exists, statOK, openOK, content]: what os.path.exists answers,
\* whether os.stat and open(path, "rb") succeed, and the bytes open would read.

Ret(val) == [raised |-> FALSE, exc |-> None, val |-> val]
Raise(exc) == [raised |-> TRUE, exc |-> exc, val |-> <<>>]

RECURSIVE ScanLoop(_, _, _, _, _)
\* the for loop of _extract_strings from byte i on
ScanLoop(data, i, st, min_len, max_results) ==
    IF i > Len(data) THEN st
    ELSE LET next == ScanStep(st, data[i], min_len, max_results)
         IN  IF next.brk THEN next ELSE ScanLoop(data, i + 1, next, min_len, max_results)

\* _extract_strings(path, min_len, max_results), lines 133-155
ExtractStringsMutant(file, min_len, max_results) ==
    IF ~file.openOK THEN Raise("OSError")
    ELSE Ret(ScanTail(ScanLoop(file.content, 1,
                               [printable |-> <<>>, results |-> <<>>, brk |-> FALSE],
                               min_len, max_results),
                      min_len, max_results))
ExtractStrings(file, min_len, max_results) ==
    IF ~file.openOK THEN Ret(<<>>)
    ELSE Ret(ScanTail(ScanLoop(file.content, 1,
                               [printable |-> <<>>, results |-> <<>>, brk |-> FALSE],
                               min_len, max_results),
                      min_len, max_results))

RECURSIVE ShaLoop(_, _, _, _)
\* the read loop of _compute_sha256 from offset pos on
ShaLoop(content, pos, h, n) ==
    LET b == ReadChunk(content, pos, n)
    IN  IF StopsReading(b, n) THEN h
        ELSE ShaLoop(content, pos + Len(b), HashUpdate(h, b), n)

\* _compute_sha256(path, chunk_size), lines 117-124
ComputeSha256(file, chunk_size) ==
    IF ~file.openOK THEN Raise("OSError")
    ELSE IF ReadRaises(chunk_size) THEN Raise("ValueError")
    ELSE Ret(HexDigest(ShaLoop(file.content, 0, NewHash, chunk_size)))

\* _file_metadata(path), lines 158-166
FileMetadata(file) ==
    IF ~file.statOK THEN Raise("OSError")
    ELSE Ret([path |-> "abspath", size |-> Len(file.content)])

\* --- the state ----------------------------------------------------------------

\* the path does not exist; it exists and cannot be opened (permissions, a
\* directory); it exists and can be read; in the last two cases stat may
\* still fail when the file goes away after the existence check
Files ==
    { [exists |-> FALSE, statOK |-> FALSE, openOK |-> FALSE, content |-> <<>>] }
    \cup { [exists |-> TRUE, statOK |-> st, openOK |-> FALSE, content |-> <<>>] : st \in BOOLEAN }
    \cup { [exists |-> TRUE, statOK |-> st, openOK |-> TRUE, content |-> c] :
           st \in BOOLEAN, c \in { <<>>, <<32, 126, 31, 32>>, <<126, 127, 32, 32>> } }

\* what get_source is given: a path, an empty path, or a pid
Inputs == {"path", "empty path", "pid", "pid without psutil", "pid of no process", "pid whose exe() raises"}

Unset == [kind |-> "unset", val |-> <<>>]

InitSource ==
    gs \in { [pc |-> "ready", op |-> None, file |-> f, input |-> "path",
              min_len |-> m, max_results |-> r,
              ret |-> Ret(<<>>),
              out |-> [file |-> Unset, sha256 |-> Unset, strings |-> Unset]] :
             f \in Files, m \in 1..MaxMinLen, r \in 1..MaxResults }

\* a direct call of _extract_strings(path, min_len, max_results)
CallExtractStrings ==
    /\ gs.pc = "ready"
    /\ gs' = [gs EXCEPT !.pc = "done", !.op = "_extract_strings",
                        !.ret = ExtractStrings(gs.file, gs.min_len, gs.max_results)]
    /\ UNCHANGED <<webVars, scan, sha, inj, gp>>

\* a direct call of _compute_sha256(path)
CallComputeSha256 ==
    /\ gs.pc = "ready"
    /\ gs' = [gs EXCEPT !.pc = "done", !.op = "_compute_sha256",
                        !.ret = ComputeSha256(gs.file, DefaultChunkSize)]
    /\ UNCHANGED <<webVars, scan, sha, inj, gp>>

\* get_source, lines 184-204: the path is resolved and must exist
GetSourceResolve ==
    /\ gs.pc = "ready"
    /\ \E input \in Inputs :
          gs' = [gs EXCEPT
                   !.op = "get_source",
                   !.input = input,
                   !.pc = IF input \in {"path", "pid"} /\ gs.file.exists THEN "file" ELSE "done",
                   !.ret = CASE input = "pid without psutil" -> Raise("RuntimeError")
                             [] input = "pid of no process" -> Raise("ValueError")
                             [] input = "pid whose exe() raises" -> Raise("ValueError")
                             [] input = "empty path" -> Raise("ValueError")
                             [] input = "pid" /\ ~gs.file.exists -> Raise("FileNotFoundError")
                             [] input = "path" /\ ~gs.file.exists -> Raise("FileNotFoundError")
                             [] OTHER -> Ret(<<>>)]
    /\ UNCHANGED <<webVars, scan, sha, inj, gp>>

\* lines 206-211: out["file"], the error kept as a value
GetSourceFile ==
    /\ gs.pc = "file"
    /\ LET r == FileMetadata(gs.file)
       IN  gs' = [gs EXCEPT !.pc = "sha256",
                            !.out.file = IF r.raised THEN [kind |-> "error", val |-> <<>>]
                                         ELSE [kind |-> "metadata", val |-> r.val]]
    /\ UNCHANGED <<webVars, scan, sha, inj, gp>>

\* lines 213-216: out["sha256"], the error kept as the string "error: ..."
GetSourceSha256 ==
    /\ gs.pc = "sha256"
    /\ LET r == ComputeSha256(gs.file, DefaultChunkSize)
       IN  gs' = [gs EXCEPT !.pc = "strings",
                            !.out.sha256 = IF r.raised THEN [kind |-> "error", val |-> <<>>]
                                           ELSE [kind |-> "digest", val |-> r.val]]
    /\ UNCHANGED <<webVars, scan, sha, inj, gp>>

\* lines 218-222: out["strings"]
GetSourceStrings ==
    /\ gs.pc = "strings"
    /\ LET r == ExtractStrings(gs.file, gs.min_len, gs.max_results)
       IN  gs' = [gs EXCEPT !.pc = "extras",
                            !.out.strings = IF r.raised THEN [kind |-> "error", val |-> <<>>]
                                            ELSE [kind |-> "strings", val |-> r.val]]
    /\ UNCHANGED <<webVars, scan, sha, inj, gp>>

\* lines 224-236: the extras, which cannot fail the call, and the return
GetSourceReturn ==
    /\ gs.pc = "extras"
    /\ gs' = [gs EXCEPT !.pc = "done", !.ret = Ret(<<>>)]
    /\ UNCHANGED <<webVars, scan, sha, inj, gp>>

NextSource ==
    \/ CallExtractStrings
    \/ CallComputeSha256
    \/ GetSourceResolve
    \/ GetSourceFile
    \/ GetSourceSha256
    \/ GetSourceStrings
    \/ GetSourceReturn

InitSourceAll == InitSource /\ WebIdle /\ scan = Idle /\ sha = Idle /\ inj = Idle /\ gp = Idle

SpecSource == InitSourceAll /\ [][NextSource]_vars

\* --- the claim ---------------------------------------------------------------

\* C7 as stated: on a path that cannot be opened _extract_strings returns the
\* empty list and is the only operation that returns: _compute_sha256 raises,
\* and get_source, whose digest and metadata steps meet the failure, raises.
C7_OnlyStringsSwallowsOpenFailure ==
    (gs.pc = "done" /\ ~gs.file.openOK) =>
        CASE gs.op = "_extract_strings" -> ~gs.ret.raised /\ gs.ret.val = <<>>
          [] gs.op = "_compute_sha256" -> gs.ret.raised
          [] OTHER -> gs.ret.raised

\* C7 amended: on a path that cannot be opened _extract_strings returns the
\* empty list and _compute_sha256 raises; get_source raises only when the path
\* is not resolved or does not exist, and for a path that exists it returns a
\* record whose sha256 is the error text, whose file entry is the error record
\* exactly when the stat failed, and whose strings are the empty list.
C7_GetSourceKeepsErrorsAsValues ==
    (gs.pc = "done" /\ ~gs.file.openOK) =>
        CASE gs.op = "_extract_strings" -> ~gs.ret.raised /\ gs.ret.val = <<>>
          [] gs.op = "_compute_sha256" -> gs.ret.raised /\ gs.ret.exc = "OSError"
          [] OTHER ->
               IF gs.input \in {"path", "pid"} /\ gs.file.exists
               THEN /\ ~gs.ret.raised
                    /\ gs.out.sha256.kind = "error"
                    /\ gs.out.file.kind = IF gs.file.statOK THEN "metadata" ELSE "error"
                    /\ gs.out.strings = [kind |-> "strings", val |-> <<>>]
               ELSE /\ gs.ret.raised
                    /\ gs.out = [file |-> Unset, sha256 |-> Unset, strings |-> Unset]
                    /\ (gs.input \in {"path", "pid"}) => gs.ret.exc = "FileNotFoundError"

\* get_source has returned for a file that exists and cannot be opened
C7_Witness ==
    /\ gs.pc = "done" /\ gs.op = "get_source" /\ ~gs.ret.raised
    /\ gs.file.exists /\ ~gs.file.openOK /\ ~gs.file.statOK
    /\ gs.out.sha256.kind = "error"

\* ======================================================================
\* web.py: class injection
\* ======================================================================

\* --- documents -----------------------------------------------------------------
\* A parsed document is the sequence of its top-level nodes (soup.contents); a
\* node is a tag with its children.  html.parser adds no html, head or body.

N(tag, kids) == [tag |-> tag, kids |-> kids]

\* str(soup): the text of a document; BeautifulSoup(text, "html.parser") reads
\* the tree back
Str(tree) == [markup |-> tree]
ParseHtml(text) == text.markup

InjectDocs ==
    { Str(<< N("html", << N("head", << N("title", <<>>) >>), N("body", << N("p", <<>>) >>) >>) >>),
      Str(<< N("html", << N("body", << N("p", <<>>) >>) >>) >>),
      Str(<< N("html", << N("head", <<>>) >>) >>),
      Str(<< N("html", << N("p", <<>>) >>) >>),
      Str(<< N("body", << N("p", <<>>) >>) >>),
      Str(<< N("head", <<>>), N("p", <<>>) >>),
      Str(<< N("p", <<>>) >>),
      Str(<<>>) }

Snippets ==
    { Str(<< N("div#injected", <<>>) >>),
      Str(<< N("div#injected", <<>>), N("span#more", <<>>) >>) }

Wheres == {"start", "end", "head", "body-start", "body-end", "start-body", "top"}

RECURSIVE FindTag(_, _, _)
\* soup.<tag>: the path (child indexes) to the first <tag> in document order
\* among nodes[i..] and their descendants, <<>> for None
FindTag(nodes, i, tag) ==
    IF i > Len(nodes) THEN <<>>
    ELSE IF nodes[i].tag = tag THEN <<i>>
    ELSE LET below == FindTag(nodes[i].kids, 1, tag)
         IN  IF below # <<>> THEN <<i>> \o below ELSE FindTag(nodes, i + 1, tag)

RECURSIVE NodeAt(_, _)
NodeAt(nodes, path) ==
    IF Len(path) = 1 THEN nodes[path[1]] ELSE NodeAt(nodes[path[1]].kids, Tail(path))

RECURSIVE InsertAt(_, _, _, _)
\* tag.insert(0, new) / tag.append(new) on the node at path; a BeautifulSoup
\* object given as new is replaced by its children, in order
InsertAt(nodes, path, atEnd, new) ==
    [nodes EXCEPT ![path[1]] =
        IF Len(path) = 1
        THEN [@ EXCEPT !.kids = IF atEnd THEN @ \o new ELSE new \o @]
        ELSE [@ EXCEPT !.kids = InsertAt(@, Tail(path), atEnd, new)]]

\* lines 164-170: a document without a body is wrapped whole into a new body
EnsureBody(soup) ==
    IF FindTag(soup, 1, "body") = <<>> THEN << N("body", soup) >> ELSE soup

\* injection.element(html, snippet, where), lines 162-182
Element(html, snippet, where) ==
    LET soup == EnsureBody(ParseHtml(html))
        snip == ParseHtml(snippet)
    IN  IF where \in {"head", "start"}
        THEN IF FindTag(soup, 1, "head") = <<>>
             THEN IF FindTag(soup, 1, "html") = <<>>
                  THEN Raise("AttributeError")
                  ELSE LET withHead == InsertAt(soup, FindTag(soup, 1, "html"), FALSE,
                                                << N("head", <<>>) >>)
                       IN  Ret(Str(InsertAt(withHead, FindTag(withHead, 1, "head"), TRUE, snip)))
             ELSE Ret(Str(InsertAt(soup, FindTag(soup, 1, "head"), TRUE, snip)))
        ELSE IF where \in {"body-start", "start-body"}
        THEN Ret(Str(InsertAt(soup, FindTag(soup, 1, "body"), FALSE, snip)))
        ELSE Ret(Str(InsertAt(soup, FindTag(soup, 1, "body"), TRUE, snip)))

\* injection.css(html, snippet, where), lines 190-205
Css(html) ==
    LET soup == ParseHtml(html)
        rooted == IF FindTag(soup, 1, "head") # <<>> THEN soup
                  ELSE LET inHtml == IF FindTag(soup, 1, "html") = <<>>
                                     THEN << N("html", soup) >> ELSE soup
                       IN  InsertAt(inHtml, FindTag(inHtml, 1, "html"), FALSE, << N("head", <<>>) >>)
    IN  Ret(Str(InsertAt(rooted, FindTag(rooted, 1, "head"), TRUE, << N("style", <<>>) >>)))

InitInjection ==
    inj \in { [pc |-> "ready", html |-> h, snippet |-> s, where |-> w, ret |-> Ret(Str(<<>>))] :
              h \in InjectDocs, s \in Snippets, w \in Wheres }

InjectElement ==
    /\ inj.pc = "ready"
    /\ inj' = [inj EXCEPT !.pc = "element", !.ret = Element(inj.html, inj.snippet, inj.where)]
    /\ UNCHANGED <<webVars, scan, sha, gp, gs>>

\* core_test.py:6: the CSS variant run on what element returned
InjectCss ==
    /\ inj.pc = "element"
    /\ ~inj.ret.raised
    /\ inj' = [inj EXCEPT !.pc = "css", !.ret = Css(inj.ret.val)]
    /\ UNCHANGED <<webVars, scan, sha, gp, gs>>

NextInject == InjectElement \/ InjectCss

InitInject == InitInjection /\ WebIdle /\ scan = Idle /\ sha = Idle /\ gp = Idle /\ gs = Idle

SpecInject == InitInject /\ [][NextInject]_vars

\* --- the claim ---------------------------------------------------------------

EndsWith(s, t) == Len(s) >= Len(t) /\ SubSeq(s, Len(s) - Len(t) + 1, Len(s)) = t
StartsWith(s, t) == Len(s) >= Len(t) /\ SubSeq(s, 1, Len(t)) = t

\* the children of the first <tag> of a document, <<>> if it has none
KidsOf(tree, tag) ==
    IF FindTag(tree, 1, tag) = <<>> THEN <<>> ELSE NodeAt(tree, FindTag(tree, 1, tag)).kids

\* C5: whatever wrappers the document has, element returns a document, and the
\* snippet is the last child of its head (placement head), the first child of
\* its body (body-start) or the last child of its body (body-end).
C5_InjectionPlacement ==
    (inj.pc = "element" /\ inj.where \in {"head", "body-start", "body-end"}) =>
        /\ ~inj.ret.raised
        /\ LET tree == ParseHtml(inj.ret.val)
               snip == ParseHtml(inj.snippet)
           IN  CASE inj.where = "head" -> EndsWith(KidsOf(tree, "head"), snip)
                 [] inj.where = "body-start" -> StartsWith(KidsOf(tree, "body"), snip)
                 [] OTHER -> EndsWith(KidsOf(tree, "body"), snip)

====
